---------------------------- MODULE Spec2Model ----------------------------
(***************************************************************************)
(* A model of the airsight gaze controller (src/src/main.py,               *)
(* src/src/overlay.py): the gaze smoother, the raw-to-screen mapping, the  *)
(* zone classifier, the two dwell machines, the calibration sweep and the  *)
(* main loop of EyeTrackerController.run.                                  *)
(*                                                                         *)
(* Time is kept in integer milliseconds (the code compares float seconds   *)
(* obtained from time.time() against threshold_ms / 1000.0).  Coordinates  *)
(* are integers; the one place where the code produces fractions (the      *)
(* exponential blend of GazeSmoother.update and the division of            *)
(* _map_to_screen) rounds down to the integer grid, standing in for the    *)
(* rounding of binary floating point.                                      *)
(***************************************************************************)
EXTENDS Integers, Sequences, FiniteSets, TLC

VARIABLES
    config,              \* self.config: the fields the controller reads
    config_file,         \* config.json: the configuration last written or loaded
    dwell,               \* self.dwell: the scroll-dwell DwellState
    menu_dwell,          \* self.menu_dwell: the menu-dwell DwellState
    smoother_last,       \* self.smoother.last
    enabled,             \* self.enabled
    calibration_matrix,  \* self.calibration_matrix
    overlay,             \* the CircularMenuOverlay: expanded, hover_action
    pc,                  \* where run() is: start, loop, calib, stopped, crashed
    cal,                 \* the locals of a run_calibration in progress
    clock,               \* the value of the last time.time() read, in ms
    machine,             \* which part of the program the behaviour exercises
    ev,                  \* observation of the last step (what was fed, what came out)
    hist,                \* observation of the steps before it
    host                 \* the native-messaging host (eyetracker_native_host.py)

\* The state of the controller outside the dwell machines and the smoother,
\* and the native host, a program of its own.
runVars == <<config_file, enabled, calibration_matrix, overlay, pc, cal, host>>

vars == <<config, config_file, dwell, menu_dwell, smoother_last, enabled,
          calibration_matrix, overlay, pc, cal, clock, machine, ev, hist, host>>

-----------------------------------------------------------------------------
(* Values *)

\* Python's None where a zone or a menu action is expected.
None == "None"

Zones == {"scroll_up", "scroll_down", "scroll_right"}

Actions == {"pause", "resume", "recalibrate", "exit"}

\* Python's None where a point or a matrix is expected.
NoPoint == <<>>

NoMatrix == <<>>

-----------------------------------------------------------------------------
(* Bounds of the model *)

\* The clock never passes MaxClock: a step that would pass it is not taken.
MaxClock == 1500

\* Time that may pass between two reads of the clock.
Dts == {0, 100, 500}

\* config["dwell"]: threshold_ms and cooldown_ms.
DwellConfigs ==
    { [threshold_ms |-> 500, cooldown_ms |-> 1000],
      [threshold_ms |-> 200, cooldown_ms |-> 600] }

\* config["screen"], config["zones"] and config["smoothing"] (ema_alpha is
\* the fraction num/den), as the harnesses of the pure functions draw them.
Screens == { [width |-> 1000, height |-> 800], [width |-> 1280, height |-> 960] }

ZoneConfigs ==
    { [top_px |-> 50, bottom_px |-> 50, right_px |-> 50],
      [top_px |-> 0, bottom_px |-> 100, right_px |-> 130],
      [top_px |-> 450, bottom_px |-> 450, right_px |-> 1000] }

SmoothingConfigs ==
    { [ema_alpha |-> [num |-> 1, den |-> 2], outlier_px |-> 50],
      [ema_alpha |-> [num |-> 1, den |-> 4], outlier_px |-> 50],
      [ema_alpha |-> [num |-> 1, den |-> 1], outlier_px |-> 50],
      [ema_alpha |-> [num |-> 1, den |-> 2], outlier_px |-> 0] }

\* The configuration the harnesses start from; each overrides the part it
\* is about.
BaseConfig ==
    [screen    |-> [width |-> 1000, height |-> 800],
     dwell     |-> [threshold_ms |-> 500, cooldown_ms |-> 1000],
     zones     |-> [top_px |-> 50, bottom_px |-> 50, right_px |-> 50],
     smoothing |-> [ema_alpha |-> [num |-> 1, den |-> 2], outlier_px |-> 50],
     calibration |-> [enabled |-> FALSE, matrix |-> NoMatrix],
     show_preview |-> FALSE]

\* overlay = CircularMenuOverlay(): not expanded, nothing hovered.
CircularMenuOverlay == [expanded |-> FALSE, hover_action |-> None]

\* No run_calibration in progress.
NoCal == [idx |-> 0]

\* The controller as __init__ leaves it, for the harnesses that do not run it.
\* The native host before main() is entered: nothing read, nothing written.
NoHost == [pc |-> "off"]

Idle ==
    /\ host = NoHost
    /\ config_file = config
    /\ enabled = TRUE
    /\ calibration_matrix = config.calibration.matrix
    /\ overlay = CircularMenuOverlay
    /\ pc = "start"
    /\ cal = NoCal

\* The clock values at which a run may start.
InitClocks == {0, 1000}

-----------------------------------------------------------------------------
(* DwellState and the two dwell machines *)

\* DwellState(): active_zone = None, start_ts = 0.0, last_fire_ts = 0.0
DwellState == [active_zone |-> None, start_ts |-> 0, last_fire_ts |-> 0]

\* _process_dwell with the cooldown test dropped.
process_dwell_no_cooldown(d, zone, now, dwell_cfg) ==
    IF zone # d.active_zone
      THEN [dwell |-> [d EXCEPT !.active_zone = zone, !.start_ts = now],
            pulse |-> None]
    ELSE IF zone # None /\ now - d.start_ts >= dwell_cfg.threshold_ms
      THEN [dwell |-> [d EXCEPT !.last_fire_ts = now], pulse |-> zone]
    ELSE [dwell |-> d, pulse |-> None]

\* _process_dwell with the cooldown test made before the change test.
process_dwell_cooldown_first(d, zone, now, dwell_cfg) ==
    IF now - d.last_fire_ts < dwell_cfg.cooldown_ms
      THEN [dwell |-> d, pulse |-> None]
    ELSE IF zone # d.active_zone
      THEN [dwell |-> [d EXCEPT !.active_zone = zone, !.start_ts = now],
            pulse |-> None]
    ELSE IF zone # None /\ now - d.start_ts >= dwell_cfg.threshold_ms
      THEN [dwell |-> [d EXCEPT !.last_fire_ts = now], pulse |-> zone]
    ELSE [dwell |-> d, pulse |-> None]

\* _process_dwell with a cooldown that a change of zone ends.
process_dwell_cooldown_per_zone(d, zone, now, dwell_cfg) ==
    IF zone # d.active_zone
      THEN [dwell |-> [d EXCEPT !.active_zone = zone, !.start_ts = now,
                                !.last_fire_ts = now - dwell_cfg.cooldown_ms],
            pulse |-> None]
    ELSE IF zone = None
      THEN [dwell |-> d, pulse |-> None]
    ELSE IF now - d.last_fire_ts < dwell_cfg.cooldown_ms
      THEN [dwell |-> d, pulse |-> None]
    ELSE IF now - d.start_ts >= dwell_cfg.threshold_ms
      THEN [dwell |-> [d EXCEPT !.last_fire_ts = now], pulse |-> zone]
    ELSE [dwell |-> d, pulse |-> None]

\* _process_dwell with threshold_ms and cooldown_ms taken for each other.
process_dwell_swapped_limits(d, zone, now, dwell_cfg) ==
    IF zone # d.active_zone
      THEN [dwell |-> [d EXCEPT !.active_zone = zone, !.start_ts = now],
            pulse |-> None]
    ELSE IF zone = None
      THEN [dwell |-> d, pulse |-> None]
    ELSE IF now - d.last_fire_ts < dwell_cfg.threshold_ms
      THEN [dwell |-> d, pulse |-> None]
    ELSE IF now - d.start_ts >= dwell_cfg.cooldown_ms
      THEN [dwell |-> [d EXCEPT !.last_fire_ts = now], pulse |-> zone]
    ELSE [dwell |-> d, pulse |-> None]

\* _process_dwell(zone, now): the new self.dwell and the scroll pulse emitted
\* (None when the call returns without scrolling).
_process_dwell(d, zone, now, dwell_cfg) ==
    LET threshold == dwell_cfg.threshold_ms
        cooldown  == dwell_cfg.cooldown_ms
    IN  IF zone # d.active_zone
          THEN [dwell |-> [d EXCEPT !.active_zone = zone, !.start_ts = now],
                pulse |-> None]
        ELSE IF zone = None
          THEN [dwell |-> d, pulse |-> None]
        ELSE IF now - d.last_fire_ts < cooldown
          THEN [dwell |-> d, pulse |-> None]
        ELSE IF now - d.start_ts >= threshold
          THEN [dwell |-> [d EXCEPT !.last_fire_ts = now],
                pulse |-> IF zone \in Zones THEN zone ELSE None]
        ELSE [dwell |-> d, pulse |-> None]

\* _process_menu_dwell(action, now): the new self.menu_dwell and the value
\* returned.
_process_menu_dwell(d, action, now, dwell_cfg) ==
    LET threshold == dwell_cfg.threshold_ms
    IN  IF action # d.active_zone
          THEN [dwell |-> [d EXCEPT !.active_zone = action, !.start_ts = now],
                fired |-> FALSE]
        ELSE IF action = None
          THEN [dwell |-> d, fired |-> FALSE]
        ELSE IF now - d.start_ts >= threshold
          THEN [dwell |-> [d EXCEPT !.active_zone = None], fired |-> TRUE]
        ELSE [dwell |-> d, fired |-> FALSE]

-----------------------------------------------------------------------------
(* GazeSmoother *)

\* The square of np.linalg.norm(np.array(p) - np.array(q)).
Dist2(p, q) == (p[1] - q[1]) * (p[1] - q[1]) + (p[2] - q[2]) * (p[2] - q[2])

\* alpha * v + (1.0 - alpha) * w, on the integer grid.
Blend(alpha, v, w) == (alpha.num * v + (alpha.den - alpha.num) * w) \div alpha.den

\* GazeSmoother.update that returns last on an outlier but stores the
\* outlier, so that the next sample near it is taken.
update_reanchors(last, point, smoothing) ==
    IF last = NoPoint
      THEN [last |-> point, out |-> point]
    ELSE IF Dist2(point, last) > smoothing.outlier_px * smoothing.outlier_px
      THEN [last |-> point, out |-> last]
    ELSE [last |-> <<Blend(smoothing.ema_alpha, point[1], last[1]),
                     Blend(smoothing.ema_alpha, point[2], last[2])>>,
          out  |-> <<Blend(smoothing.ema_alpha, point[1], last[1]),
                     Blend(smoothing.ema_alpha, point[2], last[2])>>]

\* GazeSmoother.update with a sample at exactly outlier_px rejected too.
update_reject_at_threshold(last, point, smoothing) ==
    IF last = NoPoint
      THEN [last |-> point, out |-> point]
    ELSE IF Dist2(point, last) >= smoothing.outlier_px * smoothing.outlier_px
      THEN [last |-> last, out |-> last]
    ELSE LET smoothed == <<Blend(smoothing.ema_alpha, point[1], last[1]),
                           Blend(smoothing.ema_alpha, point[2], last[2])>>
         IN  [last |-> smoothed, out |-> smoothed]

\* GazeSmoother.update with the two weights of the blend exchanged.
update_swapped_weights(last, point, smoothing) ==
    IF last = NoPoint
      THEN [last |-> point, out |-> point]
    ELSE IF Dist2(point, last) > smoothing.outlier_px * smoothing.outlier_px
      THEN [last |-> last, out |-> last]
    ELSE LET smoothed == <<Blend(smoothing.ema_alpha, last[1], point[1]),
                           Blend(smoothing.ema_alpha, last[2], point[2])>>
         IN  [last |-> smoothed, out |-> smoothed]

\* GazeSmoother.update(point): the new self.last and the point returned.
\* dist > outlier_px is compared on the squares (outlier_px >= 0).
update(last, point, smoothing) ==
    IF last = NoPoint
      THEN [last |-> point, out |-> point]
    ELSE IF Dist2(point, last) > smoothing.outlier_px * smoothing.outlier_px
      THEN [last |-> last, out |-> last]
    ELSE LET smoothed == <<Blend(smoothing.ema_alpha, point[1], last[1]),
                           Blend(smoothing.ema_alpha, point[2], last[2])>>
         IN  [last |-> smoothed, out |-> smoothed]

-----------------------------------------------------------------------------
(* Mapping to the screen and zone classification *)

\* np.clip(v / frame, 0.0, 1.0) * screen, on the integer grid (frame > 0).
ClipScale(v, frame, screen) ==
    IF v <= 0 THEN 0
    ELSE IF v >= frame THEN screen
    ELSE (v * screen) \div frame

\* _map_to_screen without np.clip in the uncalibrated branch.
map_to_screen_unclipped(matrix, gaze_xy, frame_w, frame_h, screen) ==
    IF matrix # NoMatrix
      THEN <<matrix[1][1] * gaze_xy[1] + matrix[1][2] * gaze_xy[2] + matrix[1][3],
             matrix[2][1] * gaze_xy[1] + matrix[2][2] * gaze_xy[2] + matrix[2][3]>>
      ELSE <<(gaze_xy[1] * screen.width) \div frame_w,
             (gaze_xy[2] * screen.height) \div frame_h>>

\* _map_to_screen(gaze_xy, frame_w, frame_h).  A matrix is a pair of rows
\* <<a, b, c>>; the model's matrices have integer entries.
_map_to_screen(matrix, gaze_xy, frame_w, frame_h, screen) ==
    IF matrix # NoMatrix
      THEN <<matrix[1][1] * gaze_xy[1] + matrix[1][2] * gaze_xy[2] + matrix[1][3],
             matrix[2][1] * gaze_xy[1] + matrix[2][2] * gaze_xy[2] + matrix[2][3]>>
      ELSE <<ClipScale(gaze_xy[1], frame_w, screen.width),
             ClipScale(gaze_xy[2], frame_h, screen.height)>>

\* _zone_for_point with the right band tested first.
zone_for_point_right_first(x, y, zones, screen) ==
    IF x >= screen.width - zones.right_px THEN "scroll_right"
    ELSE IF y <= zones.top_px THEN "scroll_up"
    ELSE IF y >= screen.height - zones.bottom_px THEN "scroll_down"
    ELSE None

\* _zone_for_point(x, y)
_zone_for_point(x, y, zones, screen) ==
    IF y <= zones.top_px THEN "scroll_up"
    ELSE IF y >= screen.height - zones.bottom_px THEN "scroll_down"
    ELSE IF x >= screen.width - zones.right_px THEN "scroll_right"
    ELSE None

-----------------------------------------------------------------------------
(* CircularMenuOverlay (overlay.py) *)

\* radius=28
Radius == 28

\* setFixedSize(200, 200)
OverlaySize == 200

\* move(screen.width() - self.width() - 20, ...)
OverlayMargin == 20

\* ring_radius = self.radius + 36
RingGap == 36

\* ... <= 20 ** 2
HitRadius == 20

\* self.actions, in the order action_at tries them.
ActionOrder == <<"pause", "resume", "recalibrate", "exit">>

\* (qCos, qSin) of i * angle_step - 90 degrees for i = 0..3, angle_step = 90:
\* up, right, down, left (the code's 3.14159 moves a ring centre by less
\* than 1/1000 of a pixel).
RingDir == << <<0, -1>>, <<1, 0>>, <<0, 1>>, <<-1, 0>> >>

\* screen_center(): the widget sits at the right edge, mid-height of the
\* primary screen, taken to be the configured screen.
screen_center(screen) ==
    <<(screen.width - OverlaySize - OverlayMargin) + OverlaySize \div 2,
      (screen.height - OverlaySize) \div 2 + OverlaySize \div 2>>

\* action_at(screen_x, screen_y)
action_at(ov, x, y, screen) ==
    IF ~ov.expanded THEN None
    ELSE LET c    == screen_center(screen)
             ring == Radius + RingGap
             hits == { i \in 1..Len(ActionOrder) :
                         (x - (c[1] + ring * RingDir[i][1])) * (x - (c[1] + ring * RingDir[i][1]))
                       + (y - (c[2] + ring * RingDir[i][2])) * (y - (c[2] + ring * RingDir[i][2]))
                           <= HitRadius * HitRadius }
         IN  IF hits = {} THEN None
             ELSE ActionOrder[CHOOSE i \in hits : \A k \in hits : i <= k]

\* is_in_base_circle(screen_x, screen_y)
is_in_base_circle(x, y, screen) ==
    Dist2(<<x, y>>, screen_center(screen)) <= Radius * Radius

\* toggle_expand that flips expanded whatever it is given, as the code does
\* for expand=None.
toggle_expand_flips(ov, expand) == [ov EXCEPT !.expanded = ~@]

\* toggle_expand(expand) with expand given
toggle_expand(ov, expand) == [ov EXCEPT !.expanded = expand]

\* set_hover_action(action_name)
set_hover_action(ov, action_name) == [ov EXCEPT !.hover_action = action_name]

-----------------------------------------------------------------------------
(* Calibration *)

\* dx <= 40 and dy <= 40
AcceptPx == 40

\* time.time() - dwell_start >= 0.6
CalDwellMs == 600

\* if len(A) >= 3
MinSamples == 3

\* points of run_calibration, in tenths of the frame.
points == << <<5, 5>>, <<1, 1>>, <<9, 1>>, <<1, 9>>, <<9, 9>> >>

\* Python's None for dwell_start; a time t is <<t>>.
NoTime == <<>>

\* The matrices a fit may return in the model.
FitCandidates ==
    { << <<2, 0, 0>>, <<0, 2, 0>> >>, << <<2, 0, -12>>, <<0, 2, -8>> >>,
      << <<1, 0, 0>>, <<0, 1, 0>> >> }

Abs(v) == IF v < 0 THEN -v ELSE v

RECURSIVE Residual(_, _, _)
\* The sum of the squared residuals of matrix m on the correspondences.
Residual(m, samples, targets) ==
    IF samples = <<>> THEN 0
    ELSE LET sm == Head(samples)
             t  == Head(targets)
             ex == m[1][1] * sm[1] + m[1][2] * sm[2] + m[1][3] - t[1]
             ey == m[2][1] * sm[1] + m[2][2] * sm[2] + m[2][3] - t[2]
         IN  ex * ex + ey * ey + Residual(m, Tail(samples), Tail(targets))

\* np.linalg.lstsq(A, B, rcond=None), transposed: the matrix of least
\* squared residual, among the model's candidates.
lstsq(samples, targets) ==
    CHOOSE m \in FitCandidates :
        \A o \in FitCandidates :
            Residual(m, samples, targets) <= Residual(o, samples, targets)

\* What is left of config.json when writing it fails after open() has
\* truncated it.
Truncated == [truncated |-> TRUE]

\* _save_calibration that sets the matrix in memory only.
save_calibration_unsaved(cfg, file, old_matrix, matrix, io) ==
    [config |-> cfg, config_file |-> file, calibration_matrix |-> matrix,
     raised |-> FALSE, saved |-> FALSE]

\* _save_calibration(matrix): io is the fate of writing config.json ("ok",
\* "open_fails", "dump_fails"); an OSError leaves self.calibration_matrix
\* as it was and propagates.
_save_calibration(cfg, file, old_matrix, matrix, io) ==
    LET written == [cfg EXCEPT !.calibration.matrix = matrix]
    IN  [config             |-> written,
         config_file        |-> IF io = "ok" THEN written
                                ELSE IF io = "open_fails" THEN file
                                ELSE Truncated,
         calibration_matrix |-> IF io = "ok" THEN matrix ELSE old_matrix,
         raised             |-> io # "ok",
         saved              |-> io = "ok"]

\* The locals of run_calibration on entry; ret and screen_xy say where it
\* was called from ("startup", or "menu" with the tick's screen point).
NewCal(ret, screen_xy) ==
    [idx |-> 1, dwell_start |-> NoTime, samples |-> <<>>, targets |-> <<>>,
     ret |-> ret, screen_xy |-> screen_xy]

\* cx, cy of the current target in the frame.
TargetInFrame(idx, frame) ==
    <<(points[idx][1] * frame[1]) \div 10, (points[idx][2] * frame[2]) \div 10>>

\* [nx * self.screen_w, ny * self.screen_h]
TargetOnScreen(idx, screen) ==
    <<(points[idx][1] * screen.width) \div 10, (points[idx][2] * screen.height) \div 10>>

-----------------------------------------------------------------------------
(* Observations.  ev describes the call made by the last step; hist keeps  *)
(* what the calls so far have shown.                                       *)

NoEvent == [kind |-> "none", target |-> None, fired |-> None]

\* hist.fired_zones: the zones the scroll-dwell machine has fired for.
\* hist.same: every call so far fed hist.zone (a zone, never None), and then
\* hist.t0 is the time of the first call; hist.fires: fires seen so far
\* (counted up to 2); hist.last_fire: the time of the last fire seen;
\* hist.change_ts: the time of the last call whose target differed from the
\* machine's active target; hist.since_fire: a fire was seen and every call
\* since fed the target that fired, hist.fired_for.
NoHist ==
    [calls |-> 0, same |-> FALSE, zone |-> None, t0 |-> 0, fires |-> 0,
     last_fire |-> 0, change_ts |-> 0, fired_for |-> None,
     since_fire |-> FALSE, fired_zones |-> {}]

Min(a, b) == IF a <= b THEN a ELSE b

Observe(h, target, now, fired, active_before) ==
    LET same == IF h.calls = 0 THEN target # None
                ELSE h.same /\ target = h.zone
    IN  [calls      |-> Min(h.calls + 1, 1),
         same       |-> same,
         zone       |-> IF same THEN target ELSE None,
         t0         |-> IF ~same THEN 0 ELSE IF h.calls = 0 THEN now ELSE h.t0,
         fires      |-> IF fired # None THEN Min(h.fires + 1, 2) ELSE h.fires,
         last_fire  |-> IF fired # None THEN now ELSE h.last_fire,
         change_ts  |-> IF target # active_before THEN now ELSE h.change_ts,
         fired_for  |-> IF fired # None THEN fired
                        ELSE IF h.since_fire /\ target = h.fired_for
                               THEN h.fired_for ELSE None,
         since_fire |-> IF fired # None THEN TRUE
                        ELSE h.since_fire /\ target = h.fired_for,
         fired_zones |-> IF fired \in Zones THEN h.fired_zones \cup {fired}
                         ELSE h.fired_zones]

-----------------------------------------------------------------------------
(* The dwell harness: one of the two machines, fresh, is fed a sequence of *)
(* targets at non-decreasing times.                                        *)

InitDwell ==
    /\ config \in {[BaseConfig EXCEPT !.dwell = c] : c \in DwellConfigs}
    /\ smoother_last = NoPoint
    /\ Idle
    /\ dwell = DwellState
    /\ menu_dwell = DwellState
    /\ clock \in InitClocks
    /\ machine \in {"scroll", "menu"}
    /\ ev = NoEvent
    /\ hist = NoHist

Called(kind, target, now, fired, active_before) ==
    /\ ev' = [kind |-> kind, target |-> target, fired |-> fired]
    /\ hist' = Observe(hist, target, now, fired, active_before)

FeedScroll(zone, dt) ==
    /\ machine = "scroll"
    /\ clock + dt <= MaxClock
    /\ LET now == clock + dt
           r   == _process_dwell(dwell, zone, now, config.dwell)
       IN  /\ dwell' = r.dwell
           /\ clock' = now
           /\ Called("scroll", zone, now, r.pulse, dwell.active_zone)
    /\ UNCHANGED <<config, menu_dwell, machine, smoother_last, runVars>>

FeedMenu(action, dt) ==
    /\ machine = "menu"
    /\ clock + dt <= MaxClock
    /\ LET now == clock + dt
           r   == _process_menu_dwell(menu_dwell, action, now, config.dwell)
       IN  /\ menu_dwell' = r.dwell
           /\ clock' = now
           /\ Called("menu", action, now, IF r.fired THEN action ELSE None,
                     menu_dwell.active_zone)
    /\ UNCHANGED <<config, dwell, machine, smoother_last, runVars>>

NextDwell ==
    \/ \E zone \in Zones \cup {None}, dt \in Dts : FeedScroll(zone, dt)
    \/ \E action \in Actions \cup {None}, dt \in Dts : FeedMenu(action, dt)

SpecDwell == InitDwell /\ [][NextDwell]_vars
-----------------------------------------------------------------------------
(* The smoother harness: a fresh GazeSmoother is fed a sequence of points. *)

\* The number of calls of update in one run of the smoother harness.
MaxUpdates == 4

SmootherPoints ==
    { <<100, 100>>, <<110, 100>>, <<150, 100>>, <<200, 100>>, <<130, 140>>,
      <<103, 101>>, <<60, 130>> }

InitSmoother ==
    /\ config \in {[BaseConfig EXCEPT !.smoothing = c] : c \in SmoothingConfigs}
    /\ smoother_last = NoPoint
    /\ Idle
    /\ dwell = DwellState
    /\ menu_dwell = DwellState
    /\ clock = 0
    /\ machine = "smoother"
    /\ ev = [kind |-> "none", n |-> 0, anchor |-> NoPoint, streak |-> 0]
    /\ hist = NoHist

\* point lies farther than outlier_px from p.
Far(point, p) ==
    Dist2(point, p) > config.smoothing.outlier_px * config.smoothing.outlier_px

\* ev.anchor is the point the smoother held when the inputs began to lie far
\* from it, as long as every input since has been far from it (NoPoint
\* otherwise); ev.streak counts these inputs.
Update(point) ==
    /\ ev.n < MaxUpdates
    /\ LET r      == update(smoother_last, point, config.smoothing)
           goes   == ev.anchor # NoPoint /\ Far(point, ev.anchor)
           starts == ~goes /\ smoother_last # NoPoint /\ Far(point, smoother_last)
       IN  /\ smoother_last' = r.last
           /\ ev' = [kind |-> "update", n |-> ev.n + 1, point |-> point,
                     out |-> r.out,
                     anchor |-> IF goes THEN ev.anchor
                                ELSE IF starts THEN smoother_last ELSE NoPoint,
                     streak |-> IF goes THEN ev.streak + 1
                                ELSE IF starts THEN 1 ELSE 0]
    /\ UNCHANGED <<config, dwell, menu_dwell, clock, machine, hist, runVars>>

NextSmoother == \E point \in SmootherPoints : Update(point)

SpecSmoother == InitSmoother /\ [][NextSmoother]_vars

-----------------------------------------------------------------------------
(* The harness of the pure functions: _map_to_screen or _zone_for_point is *)
(* applied once to an input drawn from bounded sets.                       *)

FrameSizes == { <<640, 480>>, <<100, 100>>, <<1, 1>> }

RawCoords == { -5, 0, 1, 50, 99, 100, 320, 479, 480, 639, 640, 700 }

\* Matrices with integer entries: twice the identity, a stretch with a shift.
Matrices ==
    { << <<2, 0, 0>>, <<0, 2, 0>> >>, << <<3, 0, -200>>, <<0, 3, -100>> >> }

ScreenXs == { -40, 0, 10, 500, 949, 950, 990, 999, 1000, 1150, 1279, 1300 }

ScreenYs == { -1, 0, 10, 50, 51, 400, 749, 750, 790, 800, 860, 959, 960 }

InitFun ==
    /\ config \in {[BaseConfig EXCEPT !.screen = sc, !.zones = z] :
                       sc \in Screens, z \in ZoneConfigs}
    /\ smoother_last = NoPoint
    /\ Idle
    /\ dwell = DwellState
    /\ menu_dwell = DwellState
    /\ clock = 0
    /\ machine = "functions"
    /\ ev = [kind |-> "none"]
    /\ hist = NoHist

MapToScreen(matrix, gaze_xy, frame) ==
    /\ ev.kind = "none"
    /\ ev' = [kind |-> "map", matrix |-> matrix, gaze_xy |-> gaze_xy,
              frame |-> frame,
              out |-> _map_to_screen(matrix, gaze_xy, frame[1], frame[2],
                                     config.screen)]
    /\ UNCHANGED <<config, dwell, menu_dwell, smoother_last, clock, machine, hist, runVars>>

ZoneForPoint(x, y) ==
    /\ ev.kind = "none"
    /\ ev' = [kind |-> "zone", x |-> x, y |-> y,
              out |-> _zone_for_point(x, y, config.zones, config.screen)]
    /\ UNCHANGED <<config, dwell, menu_dwell, smoother_last, clock, machine, hist, runVars>>

NextFun ==
    \/ \E matrix \in Matrices \cup {NoMatrix}, gx \in RawCoords, gy \in RawCoords,
          frame \in FrameSizes : MapToScreen(matrix, <<gx, gy>>, frame)
    \/ \E x \in ScreenXs, y \in ScreenYs : ZoneForPoint(x, y)

SpecFun == InitFun /\ [][NextFun]_vars

-----------------------------------------------------------------------------
(* EyeTrackerController.run: one step per frame read from the camera, from *)
(* the cap.read() to the next one.                                         *)

\* The clock of a run never passes MaxRunClock.
MaxRunClock == 6600

\* The clock when run() is entered: time.time() is far past any cooldown.
RunStartClocks == {3000}

\* Time that may pass between two reads of the clock in a run.
RunDts == {0, 600}
\* Milliseconds between the two time.time() reads of one tick (lines 278 and
\* 290): the reads are adjacent, so they agree to the millisecond.
ReadGaps == {0}

\* The frames the camera delivers: (width, height).
RunFrames == { <<640, 480>> }

\* The iris centre _compute_iris_center finds in a frame: the five
\* calibration targets, the points that map onto the menu's base circle and
\* its four actions, the right edge of the frame, a point near its left edge.
GazePoints ==
    { <<320, 240>>, <<64, 48>>, <<576, 48>>, <<64, 432>>, <<576, 432>>,
      <<580, 240>>, <<580, 208>>, <<612, 240>>, <<580, 272>>, <<548, 240>>,
      <<640, 240>>, <<4, 240>> }

\* The configurations a run may be started with: uncalibrated, calibrating
\* at startup with the preview window shown, and with a matrix from an
\* earlier fit.
RunConfigs ==
    { [screen    |-> [width |-> 1280, height |-> 960],
       dwell     |-> [threshold_ms |-> 500, cooldown_ms |-> 1000],
       zones     |-> [top_px |-> 100, bottom_px |-> 100, right_px |-> 130],
       smoothing |-> [ema_alpha |-> [num |-> 1, den |-> 1], outlier_px |-> 2000],
       calibration |-> c.calibration,
       show_preview |-> c.show_preview] :
      c \in { [calibration |-> [enabled |-> FALSE, matrix |-> NoMatrix],
               show_preview |-> FALSE],
              [calibration |-> [enabled |-> TRUE, matrix |-> NoMatrix],
               show_preview |-> TRUE],
              [calibration |-> [enabled |-> TRUE,
                                matrix |-> << <<2, 0, -12>>, <<0, 2, -8>> >>],
               show_preview |-> FALSE] } }

\* cv2.waitKey(1) is read only when the preview window is shown: whether it
\* returned Escape.
EscKeys == IF config.show_preview THEN BOOLEAN ELSE {FALSE}

\* What a step of run() shows: whether a gaze point was found, the screen
\* point handed to the menu hit-test and the zone classifier, the menu action
\* and the scroll pulse fired, whether the zone was classified, the number
\* of correspondences fitted (0: no fit), whether config.json was written,
\* whether Escape in the preview window ended the loop, and what
\* run_calibration handed back when it ended: it returns None on every
\* path (lines 200 and 241) and prints nothing.  On a tick that fired a
\* menu action or a scroll pulse, after says what the step before it was: a
\* tick without a gaze point ("gap"), a tick with one that left the
\* scroll-dwell machine unfed ("pause"), or anything else ("other").  On a
\* calibration frame with a face, near says whether the iris centre passed
\* the test of line 225.
RunEvent(kind) ==
    [kind |-> kind, gaze |-> FALSE, screen_xy |-> NoPoint, menu |-> None,
     pulse |-> None, zoned |-> FALSE, fit |-> 0, saved |-> FALSE, esc |-> FALSE,
     outcome |-> None, after |-> None, near |-> FALSE]

\* What the last step was, as the next tick sees it.
Before ==
    IF ev.kind = "tick" /\ ~ev.gaze THEN "gap"
    ELSE IF ev.kind = "tick" /\ ~ev.zoned THEN "pause"
    ELSE "other"

InitRun ==
    /\ config \in RunConfigs
    /\ smoother_last = NoPoint
    /\ Idle
    /\ dwell = DwellState
    /\ menu_dwell = DwellState
    /\ clock \in RunStartClocks
    /\ machine = "run"
    /\ ev = RunEvent("none")
    /\ hist = NoHist

\* The scroll step of a tick without the test of self.enabled.
scroll_step_ungated(d, en, screen_xy, now, cfg) ==
    LET zone == _zone_for_point(screen_xy[1], screen_xy[2], cfg.zones, cfg.screen)
        r    == _process_dwell(d, zone, now, cfg.dwell)
    IN  [dwell |-> r.dwell, pulse |-> r.pulse, zoned |-> TRUE]

\* run(), lines 288-290: the zone is classified and the scroll-dwell machine
\* fed only while processing is enabled.
scroll_step(d, en, screen_xy, now, cfg) ==
    IF en
      THEN LET zone == _zone_for_point(screen_xy[1], screen_xy[2], cfg.zones, cfg.screen)
               r    == _process_dwell(d, zone, now, cfg.dwell)
           IN  [dwell |-> r.dwell, pulse |-> r.pulse, zoned |-> TRUE]
      ELSE [dwell |-> d, pulse |-> None, zoned |-> FALSE]

\* run(), lines 292-300: Escape in the preview window breaks the loop (esc
\* is one of EscKeys).
after_preview(esc) == IF esc THEN "stopped" ELSE "loop"

\* run(), lines 244-255: the camera is opened, calibration runs when it is
\* enabled and no matrix was configured, the overlay is shown.
Start(opened) ==
    /\ pc = "start"
    /\ IF ~opened
         THEN pc' = "crashed" /\ cal' = cal
       ELSE IF config.calibration.enabled /\ calibration_matrix = NoMatrix
         THEN pc' = "calib" /\ cal' = NewCal("startup", NoPoint)
       ELSE pc' = "loop" /\ cal' = cal
    /\ ev' = RunEvent("start")
    /\ UNCHANGED <<config, config_file, dwell, menu_dwell, smoother_last, enabled,
                   calibration_matrix, overlay, clock, machine, hist, host>>

\* run(), lines 258-260: cap.read() fails.
TickReadFails ==
    /\ pc = "loop"
    /\ pc' = "stopped"
    /\ ev' = RunEvent("read_fails")
    /\ UNCHANGED <<config, config_file, dwell, menu_dwell, smoother_last, enabled,
                   calibration_matrix, overlay, cal, clock, machine, hist, host>>

\* A tick without a face that resets the two dwell machines.
TickNoFaceResetsDwell(esc) ==
    /\ pc = "loop"
    /\ pc' = after_preview(esc)
    /\ dwell' = DwellState
    /\ menu_dwell' = DwellState
    /\ ev' = [RunEvent("tick") EXCEPT !.esc = esc]
    /\ UNCHANGED <<config, config_file, smoother_last, enabled,
                   calibration_matrix, overlay, cal, clock, machine, hist, host>>

\* run(), lines 258-267 and 292-300: a frame in which no face is found.
TickNoFace(esc) ==
    /\ pc = "loop"
    /\ pc' = after_preview(esc)
    /\ ev' = [RunEvent("tick") EXCEPT !.esc = esc]
    /\ UNCHANGED <<config, config_file, dwell, menu_dwell, smoother_last, enabled,
                   calibration_matrix, overlay, cal, clock, machine, hist, host>>

\* run(), lines 258-300: a frame with a face whose iris centre is iris.
\* dt1 and dt2 are the times to the two reads of the clock.
TickFace(iris, frame, dt1, dt2, esc) ==
    /\ pc = "loop"
    /\ clock + dt1 + dt2 <= MaxRunClock
    /\ \E sm \in { update(smoother_last,
                           _map_to_screen(calibration_matrix, iris, frame[1],
                                          frame[2], config.screen),
                           config.smoothing) } :
       \E xy \in { sm.out } :
       \E ov1 \in { IF is_in_base_circle(xy[1], xy[2], config.screen)
                      THEN toggle_expand(overlay, TRUE) ELSE overlay } :
       \E action \in { action_at(ov1, xy[1], xy[2], config.screen) } :
       \E now1 \in { clock + dt1 } :
       \E md \in { _process_menu_dwell(menu_dwell, action, now1, config.dwell) } :
       \E fired \in { IF md.fired THEN action ELSE None } :
       \E en \in { IF fired = "pause" THEN FALSE
                    ELSE IF fired = "resume" THEN TRUE
                    ELSE enabled } :
       \E e \in { [RunEvent("tick") EXCEPT !.gaze = TRUE, !.screen_xy = xy,
                                           !.menu = fired,
                                           !.after = IF fired # None THEN Before
                                                     ELSE None] } :
           /\ smoother_last' = sm.last
           /\ overlay' = set_hover_action(ov1, action)
           /\ menu_dwell' = md.dwell
           /\ enabled' = en
           /\ IF fired = "recalibrate"
                THEN /\ pc' = "calib"
                     /\ cal' = NewCal("menu", xy)
                     /\ dwell' = dwell
                     /\ clock' = now1
                     /\ ev' = e
              ELSE IF fired = "exit"
                THEN /\ pc' = "stopped"
                     /\ cal' = cal
                     /\ dwell' = dwell
                     /\ clock' = now1
                     /\ ev' = e
              ELSE \E sc \in { scroll_step(dwell, en, xy, now1 + dt2, config) } :
                   /\ pc' = after_preview(esc)
                   /\ cal' = cal
                   /\ dwell' = sc.dwell
                   /\ clock' = IF en THEN now1 + dt2 ELSE now1
                   /\ ev' = [e EXCEPT !.pulse = sc.pulse, !.zoned = sc.zoned,
                                      !.esc = esc,
                                      !.after = IF fired # None \/ sc.pulse # None
                                                  THEN Before ELSE None]
    /\ UNCHANGED <<config, config_file, calibration_matrix, machine, hist, host>>

\* run() once run_calibration has returned at time now: lines 251-255 at
\* startup; inside a tick lines 288-300, with the screen point of that tick.
Returned(now, dt2, esc, e) ==
    IF cal.ret = "startup"
      THEN /\ pc' = "loop"
           /\ dwell' = dwell
           /\ clock' = now
           /\ ev' = e
      ELSE \E sc \in { scroll_step(dwell, enabled, cal.screen_xy, now + dt2, config) } :
               /\ pc' = after_preview(esc)
               /\ dwell' = sc.dwell
               /\ clock' = IF enabled THEN now + dt2 ELSE now
               /\ ev' = [e EXCEPT !.pulse = sc.pulse, !.zoned = sc.zoned,
                                  !.screen_xy = IF sc.zoned THEN cal.screen_xy ELSE NoPoint,
                                  !.esc = esc]

\* run_calibration, lines 198-200: cap.read() fails and the sweep returns
\* without a fit.
CalibReadFails(dt2, esc) ==
    /\ pc = "calib"
    /\ clock + dt2 <= MaxRunClock
    /\ cal' = NoCal
    /\ Returned(clock, dt2, esc, RunEvent("calib_read_fails"))
    /\ UNCHANGED <<config, config_file, menu_dwell, smoother_last, enabled,
                   calibration_matrix, overlay, machine, hist, host>>

\* A sweep whose frames without a face clear the dwell machines and the
\* smoother.
CalibNoFaceClearsDwell ==
    /\ pc = "calib"
    /\ dwell' = DwellState
    /\ menu_dwell' = DwellState
    /\ smoother_last' = NoPoint
    /\ ev' = RunEvent("calib")
    /\ UNCHANGED <<config, config_file, enabled, calibration_matrix, overlay, pc,
                   cal, clock, machine, hist, host>>

\* A sweep that gives up on a frame without a face.
CalibNoFaceGivesUp ==
    /\ pc = "calib"
    /\ pc' = "loop"
    /\ cal' = NoCal
    /\ ev' = RunEvent("calib")
    /\ UNCHANGED <<config, config_file, dwell, menu_dwell, smoother_last, enabled,
                   calibration_matrix, overlay, clock, machine, hist, host>>

\* run_calibration, lines 198-219: a frame in which no face is found.
CalibNoFace ==
    /\ pc = "calib"
    /\ ev' = RunEvent("calib")
    /\ UNCHANGED <<config, config_file, dwell, menu_dwell, smoother_last, enabled,
                   calibration_matrix, overlay, pc, cal, clock, machine, hist, host>>

\* run_calibration, lines 198-241: a frame with a face whose iris centre is
\* iris; dt is the time to the read of the clock, io the fate of the write
\* of config.json, dt2 and esc belong to the rest of the interrupted tick.
CalibFace(iris, frame, dt, dt2, esc, io) ==
    /\ pc = "calib"
    /\ clock + dt + dt2 <= MaxRunClock
    /\ LET c       == TargetInFrame(cal.idx, frame)
           inbox   == Abs(iris[1] - c[1]) <= AcceptPx /\ Abs(iris[2] - c[2]) <= AcceptPx
           now     == clock + dt
           samples == Append(cal.samples, iris)
           targets == Append(cal.targets, TargetOnScreen(cal.idx, config.screen))
           sv      == _save_calibration(config, config_file, calibration_matrix,
                                        lstsq(samples, targets), io)
           e       == [RunEvent("calib") EXCEPT !.gaze = TRUE, !.near = inbox]
       IN  IF ~inbox
             THEN /\ cal' = [cal EXCEPT !.dwell_start = NoTime]
                  /\ ev' = e
                  /\ UNCHANGED <<config, config_file, calibration_matrix, dwell, pc, clock>>
           ELSE IF cal.dwell_start = NoTime
             THEN /\ cal' = [cal EXCEPT !.dwell_start = <<now>>]
                  /\ clock' = now
                  /\ ev' = e
                  /\ UNCHANGED <<config, config_file, calibration_matrix, dwell, pc>>
           ELSE IF now - cal.dwell_start[1] < CalDwellMs
             THEN /\ clock' = now
                  /\ ev' = e
                  /\ UNCHANGED <<config, config_file, calibration_matrix, dwell, pc, cal>>
           ELSE IF cal.idx < Len(points)
             THEN /\ cal' = [cal EXCEPT !.idx = @ + 1, !.dwell_start = NoTime,
                                        !.samples = samples, !.targets = targets]
                  /\ clock' = now
                  /\ ev' = e
                  /\ UNCHANGED <<config, config_file, calibration_matrix, dwell, pc>>
           ELSE IF Len(samples) >= MinSamples
             THEN /\ config' = sv.config
                  /\ config_file' = sv.config_file
                  /\ calibration_matrix' = sv.calibration_matrix
                  /\ cal' = NoCal
                  /\ IF sv.raised
                       THEN /\ pc' = "crashed"
                            /\ dwell' = dwell
                            /\ clock' = now
                            /\ ev' = [e EXCEPT !.fit = Len(samples)]
                       ELSE Returned(now, dt2, esc,
                                     [e EXCEPT !.fit = Len(samples), !.saved = sv.saved])
           ELSE /\ cal' = NoCal
                /\ Returned(now, dt2, esc, e)
                /\ UNCHANGED <<config, config_file, calibration_matrix>>
    /\ UNCHANGED <<menu_dwell, smoother_last, enabled, overlay, machine, hist, host>>

Next ==
    \/ \E opened \in BOOLEAN : Start(opened)
    \/ TickReadFails
    \/ \E esc \in EscKeys : TickNoFace(esc)
    \/ \E iris \in GazePoints, frame \in RunFrames, dt1 \in RunDts, dt2 \in ReadGaps,
          esc \in EscKeys : TickFace(iris, frame, dt1, dt2, esc)
    \/ \E dt2 \in ReadGaps, esc \in EscKeys : CalibReadFails(dt2, esc)
    \/ CalibNoFace
    \/ \E iris \in GazePoints, frame \in RunFrames, dt \in RunDts, dt2 \in ReadGaps,
          esc \in EscKeys, io \in {"ok", "open_fails", "dump_fails"} :
          CalibFace(iris, frame, dt, dt2, esc, io)

Spec == InitRun /\ [][Next]_vars

-----------------------------------------------------------------------------
(* The native-messaging host (native/eyetracker_native_host.py): main()    *)
(* reads length-prefixed JSON messages from stdin and answers on stdout.   *)

\* The frames stdin may hold in one run of the host.
MaxMessages == 3

\* A frame on stdin, by what the host makes of it: "empty" has length 0;
\* "null" has the body null; "not_json" has a body json.loads rejects;
\* "not_object" is JSON that has no .get (a list, a number); "bad_port" is
\* an object whose port int() rejects; the others are objects with that
\* command ("ping" stands for every command the host does not know) and no
\* port or an integer one.
Frames ==
    {"empty", "null", "not_json", "not_object", "bad_port",
     "startServer", "status", "ping"}

\* _read_message(): what main() gets ("None", "raise", or the message), and
\* whether a body was taken off stdin.
_read_message(stdin) ==
    IF stdin = <<>> THEN [message |-> None, body |-> FALSE, raised |-> FALSE]
    ELSE IF Head(stdin) = "empty"
      THEN [message |-> None, body |-> FALSE, raised |-> FALSE]
    ELSE IF Head(stdin) = "null"
      THEN [message |-> None, body |-> TRUE, raised |-> FALSE]
    ELSE IF Head(stdin) = "not_json"
      THEN [message |-> None, body |-> TRUE, raised |-> TRUE]
    ELSE [message |-> Head(stdin), body |-> TRUE, raised |-> FALSE]

\* The replies of the host.
WebDirMissing  == [ok |-> FALSE, error |-> "Web directory not found"]
UnknownCommand == [ok |-> FALSE, error |-> "Unknown command"]
DidNotStart    == [ok |-> FALSE, error |-> "Server did not start"]
FatalError     == [ok |-> FALSE, error |-> "exception"]
Started(already) == [ok |-> TRUE, alreadyRunning |-> already]
Status(running)  == [ok |-> TRUE, running |-> running]

\* _start_server(port, root_dir): popen_ok says whether subprocess.Popen
\* returns, up whether the port listens within the 20 polls.  The result
\* has the response, the processes spawned and whether the port listens
\* afterwards.
_start_server(listening, popen_ok, up) ==
    IF listening
      THEN [response |-> Started(TRUE), raised |-> FALSE, spawned |-> 0,
            listening |-> TRUE]
    ELSE IF ~popen_ok
      THEN [response |-> None, raised |-> TRUE, spawned |-> 0, listening |-> FALSE]
    ELSE IF up
      THEN [response |-> Started(FALSE), raised |-> FALSE, spawned |-> 1,
            listening |-> TRUE]
    ELSE [response |-> DidNotStart, raised |-> FALSE, spawned |-> 1,
          listening |-> FALSE]

\* host.taken: the frames with a body read so far; host.stdout: the replies
\* written; host.spawned: the server processes started; host.listening:
\* whether the port listens; host.web: whether the web directory exists.
InitHost ==
    /\ host \in [pc : {"read"},
                 stdin : UNION { [1..n -> Frames] : n \in 0..MaxMessages },
                 msg : {None}, stdout : {<<>>}, taken : {<<>>}, spawned : {0},
                 listening : BOOLEAN, web : BOOLEAN]
    /\ config = BaseConfig
    /\ config_file = config
    /\ enabled = TRUE
    /\ calibration_matrix = NoMatrix
    /\ overlay = CircularMenuOverlay
    /\ pc = "start"
    /\ cal = NoCal
    /\ smoother_last = NoPoint
    /\ dwell = DwellState
    /\ menu_dwell = DwellState
    /\ clock = 0
    /\ machine = "host"
    /\ ev = [kind |-> "none"]
    /\ hist = NoHist

hostRest == <<config, config_file, dwell, menu_dwell, smoother_last, enabled,
              calibration_matrix, overlay, pc, cal, clock, machine, ev, hist>>

\* main(), lines 84-88, with the handler of line 112 for a body that
\* json.loads rejects.
HostRead ==
    /\ host.pc = "read"
    /\ LET r == _read_message(host.stdin)
       IN  host' = [host EXCEPT
                      !.stdin = IF host.stdin = <<>> THEN <<>> ELSE Tail(host.stdin),
                      !.taken = IF r.body THEN Append(@, Head(host.stdin)) ELSE @,
                      !.msg   = r.message,
                      !.pc    = IF r.raised THEN "fatal"
                                ELSE IF r.message = None THEN "done"
                                ELSE "handle"]
    /\ UNCHANGED hostRest

\* main(), lines 90-106, for the message just read.
HostHandle(popen_ok, up) ==
    /\ host.pc = "handle"
    /\ IF host.msg \in {"not_object", "bad_port"}
         THEN host' = [host EXCEPT !.pc = "fatal"]
       ELSE IF ~host.web
         THEN host' = [host EXCEPT !.pc = "read",
                                   !.stdout = Append(@, WebDirMissing)]
       ELSE IF host.msg = "startServer"
         THEN LET r == _start_server(host.listening, popen_ok, up)
              IN  host' = [host EXCEPT
                             !.pc = IF r.raised THEN "fatal" ELSE "read",
                             !.stdout = IF r.raised THEN @ ELSE Append(@, r.response),
                             !.spawned = @ + r.spawned,
                             !.listening = r.listening]
       ELSE IF host.msg = "status"
         THEN host' = [host EXCEPT !.pc = "read",
                                   !.stdout = Append(@, Status(host.listening))]
       ELSE host' = [host EXCEPT !.pc = "read",
                                 !.stdout = Append(@, UnknownCommand)]
    /\ UNCHANGED hostRest

\* Lines 110-114: an exception out of main() is answered and ends the host.
HostFatal ==
    /\ host.pc = "fatal"
    /\ host' = [host EXCEPT !.pc = "done", !.stdout = Append(@, FatalError)]
    /\ UNCHANGED hostRest

NextHost ==
    \/ HostRead
    \/ \E popen_ok \in BOOLEAN, up \in BOOLEAN : HostHandle(popen_ok, up)
    \/ HostFatal

SpecHost == InitHost /\ [][NextHost]_vars

-----------------------------------------------------------------------------
(* Claims about the dwell machines (checked under SpecDwell, where every   *)
(* step that changes the state is one call of the machine under test)      *)

\* The calls so far, this one included, fed one and the same zone to the
\* fresh scroll-dwell machine.
SameZoneRun == machine = "scroll" /\ hist'.same

NoEarlyFire ==
    SameZoneRun /\ clock' - hist'.t0 < config.dwell.threshold_ms
        => ev'.fired = None

NoFireInCooldown ==
    SameZoneRun /\ hist.fires > 0 /\ clock' - hist.last_fire < config.dwell.cooldown_ms
        => ev'.fired = None

C2_MenuSingleShot ==
    [][ machine = "menu" /\ hist.since_fire /\ ev'.target = hist.fired_for
          => ev'.fired = None ]_vars

\* C3: in both machines a call whose target differs from the active target
\* makes it the active target, sets start_ts to now and does not fire,
\* whatever the cooldown state; and a call fires only when the threshold has
\* passed since the last such change.
C3_ResetOnChange ==
    [][ LET d  == IF machine = "scroll" THEN dwell ELSE menu_dwell
            dn == IF machine = "scroll" THEN dwell' ELSE menu_dwell'
        IN  /\ ev'.target # d.active_zone
                => /\ dn.active_zone = ev'.target
                   /\ dn.start_ts = clock'
                   /\ dn.last_fire_ts = d.last_fire_ts
                   /\ ev'.fired = None
            /\ ev'.fired # None
                => clock' - hist.change_ts >= config.dwell.threshold_ms ]_vars

\* A change of zone seen by the scroll machine inside the cooldown of a fire.
C3_Witness ==
    /\ machine = "scroll" /\ hist.fires > 0
    /\ ev.target \in Zones /\ ev.target # hist.fired_for
    /\ dwell.active_zone = ev.target /\ dwell.start_ts = clock
    /\ clock - dwell.last_fire_ts < config.dwell.cooldown_ms
    /\ hist.change_ts = clock
-----------------------------------------------------------------------------
(* Claims about the pure functions (SpecFun) and the smoother              *)
(* (SpecSmoother)                                                          *)

Uncalibrated == ev.kind = "map" /\ ev.matrix = NoMatrix

C7_ZonePriority ==
    ev.kind = "zone" =>
        LET top    == ev.y <= config.zones.top_px
            bottom == ev.y >= config.screen.height - config.zones.bottom_px
            right  == ev.x >= config.screen.width - config.zones.right_px
            spec_example ==
                /\ config.screen = [width |-> 1000, height |-> 800]
                /\ config.zones = [top_px |-> 50, bottom_px |-> 50, right_px |-> 50]
        IN  /\ top => ev.out = "scroll_up"
            /\ ~top /\ bottom => ev.out = "scroll_down"
            /\ ~top /\ ~bottom /\ right => ev.out = "scroll_right"
            /\ ~top /\ ~bottom /\ ~right => ev.out = None
            /\ spec_example /\ ev.x = 500 /\ ev.y = 800 => ev.out = "scroll_down"
            /\ spec_example /\ ev.x = 990 /\ ev.y = 10 => ev.out = "scroll_up"
            /\ spec_example /\ ev.x = 990 /\ ev.y = 790 => ev.out = "scroll_down"

\* The top-right corner of the spec's example: in the top and the right band.
C7_Witness ==
    /\ ev.kind = "zone" /\ ev.x = 990 /\ ev.y = 10 /\ ev.out = "scroll_up"
    /\ config.screen = [width |-> 1000, height |-> 800]
    /\ config.zones = [top_px |-> 50, bottom_px |-> 50, right_px |-> 50]

\* The blend of GazeSmoother.update, stated on its own: out is
\* alpha * point + (1 - alpha) * last per coordinate, to the grid.
IsBlend(out, point, last) ==
    LET a == config.smoothing.ema_alpha
    IN  \A i \in 1..2 :
            /\ a.den * out[i] <= a.num * point[i] + (a.den - a.num) * last[i]
            /\ a.num * point[i] + (a.den - a.num) * last[i] < a.den * (out[i] + 1)

Outlier2 == config.smoothing.outlier_px * config.smoothing.outlier_px

\* C8: a later call of update whose point is farther than outlier_px from
\* last returns last and leaves the smoother unchanged; a point at exactly
\* outlier_px is not rejected.
C8_OutlierRejection ==
    [][ ev'.kind = "update" /\ smoother_last # NoPoint =>
          /\ Dist2(ev'.point, smoother_last) > Outlier2
                => ev'.out = smoother_last /\ smoother_last' = smoother_last
          /\ Dist2(ev'.point, smoother_last) = Outlier2
                => IsBlend(smoother_last', ev'.point, smoother_last) ]_vars

\* The spec's example: alpha 0.5, threshold 50, last (100,100), fed (200,100).
C8_Witness ==
    /\ ev.kind = "update" /\ ev.n > 1
    /\ config.smoothing = [ema_alpha |-> [num |-> 1, den |-> 2], outlier_px |-> 50]
    /\ ev.point = <<200, 100>> /\ ev.out = <<100, 100>>
    /\ smoother_last = <<100, 100>>

\* C9: the first call of update stores and returns its point; a later call
\* whose point is within outlier_px of last stores and returns the blend
\* alpha * point + (1 - alpha) * last; the point returned is always the
\* stored last.
C9_Blend ==
    [][ ev'.kind = "update" =>
          /\ smoother_last = NoPoint
                => ev'.out = ev'.point /\ smoother_last' = ev'.point
          /\ smoother_last # NoPoint /\ Dist2(ev'.point, smoother_last) <= Outlier2
                => IsBlend(ev'.out, ev'.point, smoother_last)
          /\ ev'.out = smoother_last' ]_vars

\* The spec's example: alpha 0.5, last (100,100), fed (110,100), gives (105,100).
C9_Witness ==
    /\ ev.kind = "update" /\ ev.n = 2
    /\ config.smoothing = [ema_alpha |-> [num |-> 1, den |-> 2], outlier_px |-> 50]
    /\ ev.point = <<110, 100>> /\ ev.out = <<105, 100>>
    /\ smoother_last = <<105, 100>>

-----------------------------------------------------------------------------
(* Claims about run() and run_calibration (checked under Spec) *)

\* The step is a tick of the main loop on which no face was found.
NoGazeTick == ev'.kind = "tick" /\ ~ev'.gaze

\* A tick without a gaze point changes none of the scroll-dwell state, the
\* menu-dwell state, the smoother state, the enabled flag and the
\* calibration matrix, fires no scroll pulse and no menu action.
NoGazeTickIsInert ==
    NoGazeTick =>
        /\ dwell' = dwell /\ menu_dwell' = menu_dwell
        /\ smoother_last' = smoother_last
        /\ enabled' = enabled
        /\ calibration_matrix' = calibration_matrix
        /\ ev'.pulse = None /\ ev'.menu = None

\* C4 as stated: a tick without a gaze point leaves the scroll-dwell state,
\* the menu-dwell state, the smoother state, the enabled flag and the
\* calibration matrix unchanged, fires no scroll pulse and no menu action,
\* and the loop continues to the next tick.
C4_NoGazeTickAsStated ==
    [][ /\ NoGazeTickIsInert
        /\ (NoGazeTick => pc' = "loop") ]_vars

\* C4 amended: as C4, but the loop continues to the next tick unless the
\* preview window is shown and Escape is pressed in it on that tick, which
\* ends the loop.
C4_NoGazeTick ==
    [][ /\ NoGazeTickIsInert
        /\ (NoGazeTick =>
              pc' = IF config.show_preview /\ ev'.esc THEN "stopped" ELSE "loop") ]_vars

\* A tick without a gaze point has passed while a scroll dwell was in
\* progress, and the loop goes on.
C4_Witness ==
    /\ ev.kind = "tick" /\ ~ev.gaze
    /\ dwell.active_zone # None /\ dwell.start_ts > 0
    /\ smoother_last # NoPoint
    /\ pc = "loop"

\* C5 as stated: on every tick with a gaze point, the screen point handed
\* to the menu hit-test and to zone classification has x in [0, screenWidth)
\* and y in [0, screenHeight), with or without a calibration matrix.
C5_ClampedBeforeZones ==
    ev.kind = "tick" /\ ev.gaze =>
        /\ 0 <= ev.screen_xy[1] /\ ev.screen_xy[1] < config.screen.width
        /\ 0 <= ev.screen_xy[2] /\ ev.screen_xy[2] < config.screen.height

\* C10: every change of self.calibration_matrix is made by a fit over at
\* least MinSamples correspondences that wrote this matrix to config.json
\* under calibration.matrix, and config.json is written by nothing but such
\* a fit inside run_calibration.
C10_MatrixOnlyByFit ==
    [][ /\ calibration_matrix' # calibration_matrix =>
              /\ pc = "calib" /\ ev'.kind = "calib"
              /\ ev'.fit >= MinSamples /\ ev'.saved
              /\ config_file' = config'
              /\ config_file'.calibration.matrix = calibration_matrix'
        /\ config_file' # config_file =>
              pc = "calib" /\ ev'.kind = "calib" /\ ev'.fit >= MinSamples ]_vars

\* A fit has replaced the matrix the run started with, and config.json
\* holds the new one.
C10_Witness ==
    /\ ev.kind = "calib" /\ ev.saved /\ ev.fit >= MinSamples
    /\ calibration_matrix = << <<2, 0, 0>>, <<0, 2, 0>> >>
    /\ config_file = config
    /\ config_file.calibration.matrix = calibration_matrix

\* The step ends a calibration run that had collected fewer than MinSamples
\* correspondences.
EndsShort == pc = "calib" /\ pc' # "calib" /\ Len(cal.samples) < MinSamples /\ ev'.fit = 0

\* A calibration run that ends short leaves self.calibration_matrix and
\* config.json as they were.
ShortRunKeepsModel ==
    [][ EndsShort => calibration_matrix' = calibration_matrix
                     /\ config_file' = config_file /\ config' = config ]_vars

\* C11 as stated: a calibration run that ends with fewer than MinSamples
\* correspondences reports an insufficient-data outcome and leaves the
\* calibration matrix and the persisted configuration unchanged.
C11_InsufficientDataReported ==
    [][ EndsShort => /\ ev'.outcome = "insufficient_data"
                     /\ calibration_matrix' = calibration_matrix
                     /\ config_file' = config_file ]_vars

\* The zone of the screen point of the tick just taken.
TickZone ==
    _zone_for_point(ev'.screen_xy[1], ev'.screen_xy[2], config.zones, config.screen)

\* C12: the first tick after a run of ticks without a gaze point, or after
\* paused ticks, that feeds the scroll-dwell machine the zone that was
\* active before fires at once when now - start_ts >= threshold and
\* now - last_fire_ts >= cooldown; the first tick after a run of ticks
\* without a gaze point that hovers the menu action that was active before
\* fires it at once when now - start_ts >= threshold.  (now is clock': the
\* two reads of the clock in a tick agree, see ReadGaps.)
C12_StaleDwellFires ==
    [][ ev'.kind = "tick" /\ ev'.gaze =>
          /\ ( /\ Before \in {"gap", "pause"} /\ ev'.zoned
               /\ TickZone # None /\ TickZone = dwell.active_zone
               /\ clock' - dwell.start_ts >= config.dwell.threshold_ms
               /\ clock' - dwell.last_fire_ts >= config.dwell.cooldown_ms
               => ev'.pulse = TickZone )
          /\ ( /\ Before = "gap"
               /\ overlay'.hover_action # None
               /\ overlay'.hover_action = menu_dwell.active_zone
               /\ clock' - menu_dwell.start_ts >= config.dwell.threshold_ms
               => ev'.menu = overlay'.hover_action ) ]_vars

\* A scroll pulse fired on the first tick after a gap, for the zone whose
\* dwell began before the gap.
C12_Witness ==
    /\ ev.kind = "tick" /\ ev.after = "gap"
    /\ ev.pulse # None /\ ev.pulse = dwell.active_zone
    /\ dwell.start_ts < clock /\ dwell.last_fire_ts = clock

\* A menu action fired on the first tick after a gap.
MenuFiresAfterGap == ev.kind = "tick" /\ ev.after = "gap" /\ ev.menu # None

\* The tick on which Resume fired emitted a pulse for the zone whose dwell
\* was frozen by the pause.
PulseOnResume ==
    /\ ev.kind = "tick" /\ ev.after = "pause" /\ ev.menu = "resume"
    /\ ev.pulse # None /\ dwell.start_ts < clock

\* The scroll-dwell machine was fed the zone of the tick's screen point at
\* the time of the tick.
ScrollFed ==
    /\ ev'.zoned
    /\ dwell' = _process_dwell(dwell, TickZone, clock', config.dwell).dwell

\* The scroll-dwell machine was left alone.
ScrollUnfed == ~ev'.zoned /\ dwell' = dwell /\ ev'.pulse = None

\* The menu-dwell machine was fed the action the tick hovers.
MenuFed ==
    menu_dwell' = _process_menu_dwell(menu_dwell, overlay'.hover_action, clock',
                                      config.dwell).dwell

\* C13: a tick with a gaze point that ends with processing disabled does not
\* classify the zone, leaves the scroll-dwell state unchanged and emits no
\* pulse, yet feeds the menu-dwell machine; the tick on which Pause fires
\* emits no pulse, the tick on which Resume fires feeds the scroll-dwell
\* machine, and the tick on which Exit fires ends the loop without feeding
\* it.
C13_PauseGating ==
    [][ ev'.kind = "tick" /\ ev'.gaze =>
          /\ MenuFed
          /\ (~enabled' => ScrollUnfed)
          /\ (ev'.menu = "pause" => ~enabled' /\ ev'.pulse = None)
          /\ (ev'.menu = "resume" => enabled' /\ ScrollFed)
          /\ (ev'.menu = "exit" => pc' = "stopped" /\ ScrollUnfed) ]_vars

\* Pause has fired on a tick whose point lies in a scroll zone with a dwell
\* in progress, and the tick left that dwell alone.
C13_Witness ==
    /\ ev.kind = "tick" /\ ev.menu = "pause" /\ ~enabled /\ ~ev.zoned
    /\ dwell.active_zone # None
    /\ _zone_for_point(ev.screen_xy[1], ev.screen_xy[2], config.zones,
                       config.screen) = dwell.active_zone
    /\ ev.pulse = None

\* The step is a frame of the calibration sweep that got past cap.read().
SweepFrame == pc = "calib" /\ ev'.kind = "calib"

\* The frame recorded a correspondence: the sweep moved to the next target,
\* or left the loop after the last one.
Accepted == SweepFrame /\ (pc' # "calib" \/ cal'.idx # cal.idx)

\* C14 as stated: a pair is recorded only on a frame whose raw point is in
\* the acceptance region and has been there for CalDwellMs since the dwell
\* timer started; a frame whose point is outside the region, or that has no
\* point, restarts the dwell timer; an acceptance records exactly one pair,
\* for the current target, and moves to the next target.
C14_SampleAcceptance ==
    [][ SweepFrame =>
          /\ (Accepted => /\ ev'.gaze /\ ev'.near
                          /\ cal.dwell_start # NoTime
                          /\ clock' - cal.dwell_start[1] >= CalDwellMs)
          /\ (~Accepted /\ (~ev'.gaze \/ ~ev'.near) => cal'.dwell_start = NoTime)
          /\ (Accepted /\ pc' = "calib" =>
                /\ cal'.idx = cal.idx + 1
                /\ Len(cal'.samples) = Len(cal.samples) + 1
                /\ cal'.targets = Append(cal.targets,
                                         TargetOnScreen(cal.idx, config.screen)))
          /\ (Accepted /\ pc' # "calib" => ev'.fit = Len(cal.samples) + 1) ]_vars

\* What the code does on a frame without a face: the dwell timer is left
\* running.
NoFaceKeepsTimer ==
    [][ SweepFrame /\ ~ev'.gaze => cal' = cal ]_vars

\* No sample is accepted on the first frame with a face after a frame
\* without one (the code breaks this: the timer ran through the gap).
NeverAcceptedAcrossGap ==
    [][ ~(Accepted /\ ev.kind = "calib" /\ ~ev.gaze) ]_vars

\* The frame finds the raw point in the acceptance region with the dwell
\* timer at CalDwellMs or more.
Dwelled ==
    /\ ev'.gaze /\ ev'.near
    /\ cal.dwell_start # NoTime
    /\ clock' - cal.dwell_start[1] >= CalDwellMs

\* C15: while frames keep coming, a frame of the sweep that does not find
\* the raw point dwelled on the current target leaves the sweep at the same
\* target with the same samples, however much time has passed, and leaves
\* the state of the main loop as it was; the sweep ends only by a failed
\* read or by the acceptance of the last target.
C15_NoTimeout ==
    [][ pc = "calib" =>
          /\ (SweepFrame /\ ~Dwelled =>
                /\ pc' = "calib"
                /\ cal'.idx = cal.idx
                /\ cal'.samples = cal.samples /\ cal'.targets = cal.targets
                /\ UNCHANGED <<dwell, menu_dwell, smoother_last, enabled, overlay,
                               calibration_matrix>>)
          /\ (pc' # "calib" =>
                \/ ev'.kind = "calib_read_fails"
                \/ SweepFrame /\ Dwelled /\ cal.idx = Len(points)) ]_vars

\* A startup sweep is still at its first target, with no sample, when the
\* time for a whole sweep has passed.
C15_Witness ==
    /\ pc = "calib" /\ cal.ret = "startup"
    /\ cal.idx = 1 /\ cal.samples = <<>>
    /\ ev.kind = "calib"
    /\ \E t0 \in RunStartClocks : clock - t0 >= Len(points) * CalDwellMs

\* C16: a step taken while run_calibration is running leaves the
\* scroll-dwell state, the menu-dwell state and the smoother as they were
\* and fires no scroll pulse and no menu action, up to the return of
\* run_calibration; the tick on which Recalibrate fires does not feed the
\* scroll-dwell machine before the sweep, and what the interrupted tick does
\* after the return (lines 288-290) is the only change the returning step
\* makes, to the scroll-dwell state alone.
C16_CalibrationExcludesDwell ==
    [][ /\ (pc = "calib" =>
              /\ menu_dwell' = menu_dwell /\ smoother_last' = smoother_last
              /\ ev'.menu = None
              /\ (pc' = "calib" \/ cal.ret = "startup" \/ ~enabled
                    => dwell' = dwell /\ ev'.pulse = None /\ ~ev'.zoned))
        /\ (pc' = "calib" /\ pc # "calib" =>
              dwell' = dwell /\ ev'.pulse = None /\ ~ev'.zoned) ]_vars

\* A sweep started by the Recalibrate action is under way, having recorded
\* a sample, with a scroll dwell and the smoothed point of the tick it
\* interrupted still in place.
C16_Witness ==
    /\ pc = "calib" /\ cal.ret = "menu" /\ cal.samples # <<>>
    /\ ev.kind = "calib"
    /\ dwell.active_zone # None /\ smoother_last = cal.screen_xy
    /\ menu_dwell.active_zone = None

-----------------------------------------------------------------------------
(* More claims about the dwell machines (checked under SpecDwell) *)

\* C17: whatever zones are fed to the scroll-dwell machine, a pulse comes no
\* sooner than cooldown_ms after the pulse before it, for the same zone or
\* another, and no sooner than threshold_ms after the last change of the
\* active zone; last_fire_ts is the time of the last pulse and a change of
\* zone leaves it alone.
C17_GlobalCooldown ==
    [][ machine = "scroll" =>
          /\ (ev'.fired # None /\ hist.fires > 0
                => clock' - hist.last_fire >= config.dwell.cooldown_ms)
          /\ (ev'.fired # None
                => clock' - hist.change_ts >= config.dwell.threshold_ms)
          /\ (hist.fires > 0 => dwell.last_fire_ts = hist.last_fire)
          /\ (ev'.fired = None => dwell'.last_fire_ts = dwell.last_fire_ts) ]_vars

\* Two pulses have been fired, for two zones, the second just now.
C17_Witness ==
    /\ machine = "scroll" /\ ev.fired # None
    /\ hist.fires = 2 /\ Cardinality(hist.fired_zones) = 2
    /\ hist.last_fire = clock

-----------------------------------------------------------------------------
(* More claims about GazeSmoother (checked under SpecSmoother) *)

\* C18: once the smoother holds a point p, as long as every later input
\* lies farther than outlier_px from p, every call of update returns p and
\* the smoother still holds p, however many calls are made.
C18_NeverReanchors ==
    ev.kind = "update" /\ ev.anchor # NoPoint
        => ev.out = ev.anchor /\ smoother_last = ev.anchor

\* The smoother holds (100,100) after three inputs in a row at (200,100),
\* farther than the threshold of 50 from it.
C18_Witness ==
    /\ ev.kind = "update" /\ ev.streak = 3
    /\ config.smoothing.outlier_px = 50
    /\ ev.anchor = <<100, 100>> /\ ev.point = <<200, 100>>
    /\ ev.out = <<100, 100>> /\ smoother_last = <<100, 100>>

-----------------------------------------------------------------------------
(* More claims about run() (checked under Spec, where the overlay starts   *)
(* collapsed)                                                              *)

\* C19: the overlay hovers no action while it is not expanded; a step
\* expands it only on a tick whose screen point is inside the base circle;
\* no step collapses it; and a menu action fires only with the overlay
\* expanded.
C19_MenuOneWay ==
    [][ /\ (overlay.expanded => overlay'.expanded)
        /\ (~overlay.expanded /\ overlay'.expanded =>
              /\ ev'.kind = "tick" /\ ev'.gaze
              /\ is_in_base_circle(ev'.screen_xy[1], ev'.screen_xy[2], config.screen))
        /\ (~overlay'.expanded => overlay'.hover_action = None)
        /\ (ev'.menu # None => overlay'.expanded) ]_vars

\* A menu action has fired on a tick whose point is outside the base
\* circle, with the overlay expanded.
C19_Witness ==
    /\ ev.kind = "tick" /\ ev.menu # None
    /\ overlay.expanded
    /\ ~is_in_base_circle(ev.screen_xy[1], ev.screen_xy[2], config.screen)

-----------------------------------------------------------------------------
(* Claims about the native host (checked under SpecHost) *)

\* reply is what the host answers to the frame req.
Fits(req, reply) ==
    IF req \in {"not_json", "not_object", "bad_port"} THEN reply = FatalError
    ELSE IF req = "null" THEN FALSE
    ELSE IF ~host.web THEN reply = WebDirMissing
    ELSE IF req = "startServer"
      THEN reply \in {Started(TRUE), Started(FALSE), DidNotStart, FatalError}
    ELSE IF req = "status" THEN reply \in {Status(TRUE), Status(FALSE)}
    ELSE reply = UnknownCommand

\* Every one of the frames in reqs that the host is done with has its one
\* reply on stdout, in the order of the requests.
Answered(reqs) ==
    /\ Len(host.stdout) = IF host.pc \in {"handle", "fatal"} THEN Len(reqs) - 1
                          ELSE Len(reqs)
    /\ \A i \in 1..Len(host.stdout) : Fits(reqs[i], host.stdout[i])

\* The host stops without a reply at the end of stdin and at a frame of
\* length 0.
StopsAtEnd ==
    host.pc = "read" /\ (host.stdin = <<>> \/ Head(host.stdin) = "empty")
        => host'.pc = "done" /\ host'.stdout = host.stdout

\* startServer with the port listening starts no process and answers ok
\* with alreadyRunning true.
NoSecondServer ==
    host.pc = "handle" /\ host.msg = "startServer" /\ host.web /\ host.listening
        => /\ host'.spawned = host.spawned
           /\ host'.stdout = Append(host.stdout, Started(TRUE))

\* C20 as stated: every message read from stdin gets exactly one reply,
\* written before the next message is read and in request order; the host
\* stops without a reply at the end of input and at a zero-length message;
\* startServer starts no server when the port already listens.
C20_StrictRelay ==
    [][ machine = "host" =>
          /\ Answered(host.taken)'
          /\ StopsAtEnd
          /\ NoSecondServer ]_vars

NotNull(frame) == frame # "null"

\* What holds of the code: the same, of the messages whose body is not
\* null; a body of null gets no reply and ends the host.
RelayButForNull ==
    [][ machine = "host" =>
          /\ Answered(SelectSeq(host.taken, NotNull))'
          /\ StopsAtEnd
          /\ NoSecondServer
          /\ (host.pc = "read" /\ host.stdin # <<>> /\ Head(host.stdin) = "null"
                => host'.pc = "done" /\ host'.stdout = host.stdout) ]_vars
=============================================================================
